---- MODULE Spec2Model ----
(***************************************************************************)
(* Model of the ABC tune explorer (PROJECT.py): the ABC parser, the SQLite *)
(* tune store, the corpus loader, the main ingestion run, the filter       *)
(* functions used by the front end and the event handlers of the front end.*)
(*                                                                         *)
(* Text is modelled character by character: a Python str is a sequence of  *)
(* one-character strings, so that the regular expressions, str.strip and   *)
(* int() are computed the way Python computes them.                        *)
(***************************************************************************)
EXTENDS Integers, Sequences, FiniteSets, TLC

(***************************************************************************)
(* Bounds of the model.                                                    *)
(***************************************************************************)
\* largest number of lines of a document drawn for the parser
MaxLines == 4
\* largest number of *.abc files of a corpus
MaxFiles == 2
\* largest number of runs of the program against the same tunes.db
MaxRuns == 2
\* largest number of characters of a query value drawn for the filters
MaxQuery == 3
\* largest number of characters of a query value typed into the front end
\* (the front end takes 50)
MaxTyped == 1

(***************************************************************************)
(* Characters and Python string helpers.                                   *)
(***************************************************************************)
NL == "\n"

\* the characters matched by \s that occur in the model's alphabet
Whitespace == {" ", NL}

\* the characters matched by \d that occur in the model's alphabet
Digits == {"0", "1", "2", "3", "4", "5", "6", "7", "8", "9"}

\* Python None (distinct from every str, which is a sequence of characters)
None == <<"None">>

\* the literal 'Unknown'
Unknown == <<"U", "n", "k", "n", "o", "w", "n">>

RECURSIVE LStrip(_)
\* str.lstrip(): drop leading whitespace
LStrip(s) ==
    IF s # <<>> /\ Head(s) \in Whitespace THEN LStrip(Tail(s)) ELSE s

RECURSIVE RStrip(_)
\* str.rstrip(): drop trailing whitespace
RStrip(s) ==
    IF s # <<>> /\ s[Len(s)] \in Whitespace
    THEN RStrip(SubSeq(s, 1, Len(s) - 1)) ELSE s

\* str.strip()
Strip(s) == RStrip(LStrip(s))

(***************************************************************************)
(* Regular expressions of ABCParser, with re.MULTILINE.                    *)
(***************************************************************************)
\* '^' under re.MULTILINE: start of the string or just after a newline
AtLineStart(s, i) == i = 1 \/ s[i - 1] = NL

RECURSIVE SkipWhile(_, _, _)
\* greedy repetition of a character class: first index >= i not in class
SkipWhile(s, i, class) ==
    IF i <= Len(s) /\ s[i] \in class THEN SkipWhile(s, i + 1, class) ELSE i

\* match of r'^X:\s*\d+' at index i: the index just after the match, 0 if none
MatchX(s, i) ==
    IF AtLineStart(s, i) /\ i + 1 <= Len(s) /\ s[i] = "X" /\ s[i + 1] = ":"
    THEN LET j == SkipWhile(s, i + 2, Whitespace)
             k == SkipWhile(s, j, Digits)
         IN  IF k > j THEN k ELSE 0
    ELSE 0

RECURSIVE SplitFrom(_, _, _)
\* re.split: pieces of s from index cur on, the scan being at index i
SplitFrom(s, cur, i) ==
    IF i > Len(s) THEN << SubSeq(s, cur, Len(s)) >>
    ELSE LET e == MatchX(s, i)
         IN  IF e # 0 THEN << SubSeq(s, cur, i - 1) >> \o SplitFrom(s, e, e)
             ELSE SplitFrom(s, cur, i + 1)

\* re.split without the [1:]: the text before the first boundary is kept
tune_blocks_keep_first(content) == SplitFrom(content, 1, 1)

\* re.split(r'^X:\s*\d+', content, flags=re.MULTILINE)[1:]
tune_blocks(content) == Tail(SplitFrom(content, 1, 1))

\* match of r'^<tag>:(.+)$' at index i of block
TagMatchAt(tag, block, i) ==
    /\ AtLineStart(block, i)
    /\ i + 2 <= Len(block)
    /\ block[i] = tag
    /\ block[i + 1] = ":"
    /\ block[i + 2] # NL

RECURSIVE LineEnd(_, _)
\* '.+' is greedy and '.' matches anything but a newline: the index of the
\* first newline at or after i, Len(s) + 1 if there is none
LineEnd(s, i) ==
    IF i <= Len(s) /\ s[i] # NL THEN LineEnd(s, i + 1) ELSE i

RECURSIVE SearchFrom(_, _, _)
\* pattern.search(block): leftmost match at index >= i, group(1) of the match
SearchFrom(tag, block, i) ==
    IF i > Len(block) THEN [found |-> FALSE, group |-> <<>>]
    ELSE IF TagMatchAt(tag, block, i)
         THEN [found |-> TRUE,
               group |-> SubSeq(block, i + 2, LineEnd(block, i + 2) - 1)]
         ELSE SearchFrom(tag, block, i + 1)

\* self.title_pattern.search(block), and likewise for the other patterns
Search(tag, block) == SearchFrom(tag, block, 1)

\* the same default, 'Unknown', for every field, source included
FieldOr_unknown(tag, block, default) ==
    LET m == Search(tag, block)
    IN  IF m.found THEN Strip(m.group) ELSE Unknown

\* group(1).strip() if the pattern matches, else the default
FieldOr(tag, block, default) ==
    LET m == Search(tag, block)
    IN  IF m.found THEN Strip(m.group) ELSE default

\* the dictionary appended to tunes for one block with a title
TuneOf(block, book_number, file_name) ==
    [title       |-> Strip(Search("T", block).group),
     rhythm_type |-> FieldOr("R", block, Unknown),
     key         |-> FieldOr("K", block, Unknown),
     composer    |-> FieldOr("C", block, Unknown),
     source      |-> FieldOr("S", block, None),
     book_number |-> book_number,
     file_name   |-> file_name,
     content     |-> Strip(block)]

\* str(abc_file)
file_path(file) == << "abc_books", file.dir, file.file_name >>

\* os.path.basename
basename(path) == path[Len(path)]

RECURSIVE ParseBlocks(_, _, _)
\* the for loop of parse_file over tune_blocks
ParseBlocks(blocks, book_number, file_name) ==
    IF blocks = <<>> THEN <<>>
    ELSE LET block == Head(blocks)
             rest  == ParseBlocks(Tail(blocks), book_number, file_name)
         IN  IF ~Search("T", block).found THEN rest
             ELSE << TuneOf(block, book_number, file_name) >> \o rest

\* parse_file without its try/except: the exception of open() or of the
\* decoding leaves parse_file
parse_file_no_handler(file, book_number) ==
    IF ~file.readable THEN [raised |-> TRUE, tunes |-> <<>>]
    ELSE [raised |-> FALSE,
          tunes  |-> ParseBlocks(tune_blocks(file.content), book_number,
                                 basename(file_path(file)))]

\* ABCParser.parse_file: a file that cannot be read or decoded raises inside
\* the try block before any tune is appended; the handler prints the error
\* and parse_file returns tunes, so no exception leaves it
parse_file(file, book_number) ==
    IF ~file.readable THEN [raised |-> FALSE, tunes |-> <<>>]
    ELSE [raised |-> FALSE,
          tunes  |-> ParseBlocks(tune_blocks(file.content), book_number,
                                 basename(file_path(file)))]

(***************************************************************************)
(* Corpus loading.                                                         *)
(***************************************************************************)
\* str.isdigit() on the characters of the model's alphabet
isdigit(name) == name # <<>> /\ \A i \in 1..Len(name) : name[i] \in Digits

\* value of one decimal digit
DigitVal(c) ==
    CASE c = "0" -> 0 [] c = "1" -> 1 [] c = "2" -> 2 [] c = "3" -> 3
      [] c = "4" -> 4 [] c = "5" -> 5 [] c = "6" -> 6 [] c = "7" -> 7
      [] c = "8" -> 8 [] c = "9" -> 9

RECURSIVE DigitsToInt(_)
\* int() of a string of decimal digits
DigitsToInt(ds) ==
    IF ds = <<>> THEN 0
    ELSE 10 * DigitsToInt(SubSeq(ds, 1, Len(ds) - 1)) + DigitVal(ds[Len(ds)])

(***************************************************************************)
(* The tunes table.                                                        *)
(***************************************************************************)
\* largest id of a set of rows, 0 for the empty table
MaxId(rows) ==
    IF rows = {} THEN 0
    ELSE CHOOSE m \in {r.id : r \in rows} : \A r \in rows : r.id <= m

\* INTEGER PRIMARY KEY without AUTOINCREMENT: one more than the largest id
\* the table holds now
NextId_rowid(rows, seq) == MaxId(rows) + 1

\* INTEGER PRIMARY KEY AUTOINCREMENT: one more than the largest id the table
\* ever held (sqlite_sequence), which DELETE does not reset
NextId(rows, seq) == (IF seq > MaxId(rows) THEN seq ELSE MaxId(rows)) + 1

\* the row INSERT stores for a tune dictionary
RowOf(tune, id) ==
    [id          |-> id,
     title       |-> tune.title,
     rhythm_type |-> tune.rhythm_type,
     key         |-> tune.key,
     composer    |-> tune.composer,
     source      |-> tune.source,
     book_number |-> tune.book_number,
     file_name   |-> tune.file_name,
     content     |-> tune.content]

RECURSIVE OrderById(_)
\* SELECT * FROM tunes ORDER BY id
OrderById(rows) ==
    IF rows = {} THEN <<>>
    ELSE LET first == CHOOSE r \in rows : \A q \in rows : r.id <= q.id
         IN  << first >> \o OrderById(rows \ {first})

\* TuneDatabase.get_dataframe on a connection that sees the rows
get_dataframe(rows) == OrderById(rows)

(***************************************************************************)
(* Data filtering functions and get_filtered_tunes.  A result is the rows  *)
(* of the DataFrame returned, or raised when an exception leaves the call. *)
(***************************************************************************)
Returned(rows) == [drawn |-> TRUE, raised |-> FALSE, rows |-> rows]
Raised == [drawn |-> TRUE, raised |-> TRUE, rows |-> <<>>]

\* re.IGNORECASE on the letters of the model's alphabet
lower(c) == IF c = "J" THEN "j" ELSE c

\* re.compile(pat) raises re.error: an opening parenthesis that is never
\* closed (the model's alphabet has no closing parenthesis and no escape)
RegexError(pat) == \E k \in 1..Len(pat) : pat[k] = "("

\* the compiled pattern matches s at index i: '.' matches any character but
\* a newline, any other character of the alphabet matches itself, case folded
RegexMatchAt(pat, s, i) ==
    \A k \in 1..Len(pat) :
        /\ i + k - 1 <= Len(s)
        /\ IF pat[k] = "." THEN s[i + k - 1] # NL
           ELSE lower(pat[k]) = lower(s[i + k - 1])

\* re.compile(pat, re.IGNORECASE).search(s) is not None
RegexSearch(pat, s) == \E i \in 1..Len(s) + 1 : RegexMatchAt(pat, s, i)

\* df[df[column].str.contains(pat, case=False, na=False)]: regex is True by
\* default, so pat is compiled as a regular expression
str_contains(rows, column, pat) ==
    IF RegexError(pat) THEN Raised
    ELSE LET Keep(r) == r[column] # None /\ RegexSearch(pat, r[column])
         IN  Returned(SelectSeq(rows, Keep))

\* get_tunes_by_book
get_tunes_by_book(rows, book_number) ==
    LET Keep(r) == r.book_number = book_number
    IN  Returned(SelectSeq(rows, Keep))

\* get_tunes_by_type
get_tunes_by_type(rows, tune_type) == str_contains(rows, "rhythm_type", tune_type)

\* search_tunes
search_tunes(rows, search_term) == str_contains(rows, "title", search_term)

RECURSIVE WithoutUnderscores(_)
\* the digits of a literal, its underscores dropped
WithoutUnderscores(s) ==
    IF s = <<>> THEN <<>>
    ELSE IF Head(s) = "_" THEN WithoutUnderscores(Tail(s))
    ELSE << Head(s) >> \o WithoutUnderscores(Tail(s))

RECURSIVE DigitsPart(_, _)
\* the digits of an integer literal after its sign: digits separated by single
\* underscores; prev is "start", "digit" or "underscore"
DigitsPart(s, prev) ==
    IF s = <<>> THEN prev = "digit"
    ELSE IF Head(s) \in Digits THEN DigitsPart(Tail(s), "digit")
    ELSE IF Head(s) = "_" THEN prev = "digit" /\ DigitsPart(Tail(s), "underscore")
    ELSE FALSE

\* int(text): whitespace around the literal is dropped, a sign may lead it;
\* ok is FALSE where int raises ValueError
py_int(text) ==
    LET t      == Strip(text)
        signed == t # <<>> /\ Head(t) \in {"+", "-"}
        body   == IF signed THEN Tail(t) ELSE t
    IN  IF DigitsPart(body, "start")
        THEN [ok |-> TRUE,
              value |-> (IF signed /\ Head(t) = "-" THEN -1 ELSE 1)
                            * DigitsToInt(WithoutUnderscores(body))]
        ELSE [ok |-> FALSE, value |-> 0]

\* get_filtered_tunes without its try/except around int()
get_filtered_tunes_no_handler(rows, mode, value) ==
    IF mode = "all" THEN Returned(rows)
    ELSE IF mode = "book" /\ value # <<>>
         THEN IF py_int(value).ok
              THEN get_tunes_by_book(rows, py_int(value).value)
              ELSE Raised
    ELSE IF mode = "type" /\ value # <<>> THEN get_tunes_by_type(rows, value)
    ELSE IF mode = "title" /\ value # <<>> THEN search_tunes(rows, value)
    ELSE Returned(rows)

\* get_filtered_tunes over tunes_df, query_mode and query_value
get_filtered_tunes(rows, mode, value) ==
    IF mode = "all" THEN Returned(rows)
    ELSE IF mode = "book" /\ value # <<>>
         THEN IF py_int(value).ok
              THEN get_tunes_by_book(rows, py_int(value).value)
              ELSE Returned(<<>>)
    ELSE IF mode = "type" /\ value # <<>> THEN get_tunes_by_type(rows, value)
    ELSE IF mode = "title" /\ value # <<>> THEN search_tunes(rows, value)
    ELSE Returned(rows)

(***************************************************************************)
(* State.                                                                  *)
(***************************************************************************)
VARIABLES
    corpus,      \* the *.abc files under abc_books, in traversal order
    runs,        \* number of the current run of the program
    pc,          \* position of the main script
    crash_at,    \* position at which an exception left the script, or "none"
    file_idx,    \* load_all_abc_files: index of the next file
    all_tunes,   \* load_all_abc_files: all_tunes
    disk_rows,   \* tunes.db: committed rows of the tunes table
    disk_seq,    \* tunes.db: committed sqlite_sequence of the tunes table
    conn,        \* db.conn: "none", "open", "closed" or "abandoned"
    txn,         \* db.conn: a transaction is open
    conn_rows,   \* rows db.conn sees (committed and pending)
    conn_seq,    \* sqlite_sequence db.conn sees
    ins_idx,     \* insert_tunes: index of the next tune
    tunes_df,    \* the DataFrame of the front end, None before it is loaded
    prev_df,     \* history: tunes_df of the latest earlier completed run
    insert_log,  \* history: the rows inserted and not rolled back, in order
    log_committed, \* history: length of insert_log at the latest commit
    query_mode,  \* front end: "all", "book", "type" or "title"
    query_value, \* front end: the text typed so far
    filtered_df, \* front end: the latest result of get_filtered_tunes
    scroll_offset,         \* front end: scroll position, in 1/results_height pixel
    status_message,        \* front end: the text of the footer
    is_dragging_scrollbar, \* front end: the scrollbar is being dragged
    drag_start_y,          \* front end: mouse_y where the drag started
    drag_start_scroll      \* front end: scroll_offset when the drag started

vars == << corpus, runs, pc, crash_at, file_idx, all_tunes, disk_rows,
           disk_seq, conn, txn, conn_rows, conn_seq, ins_idx, tunes_df,
           prev_df, insert_log, log_committed, query_mode, query_value,
           filtered_df, scroll_offset, status_message, is_dragging_scrollbar,
           drag_start_y, drag_start_scroll >>

loadVars  == << file_idx, all_tunes >>
diskVars  == << disk_rows, disk_seq >>
connVars  == << conn, txn, conn_rows, conn_seq >>
scrollVars == << scroll_offset, status_message, is_dragging_scrollbar,
                drag_start_y, drag_start_scroll >>
uiVars    == << query_mode, query_value, filtered_df, scrollVars >>

(***************************************************************************)
(* Inputs: documents, corpora and tunes.db files the program can meet.     *)
(***************************************************************************)
RECURSIVE Join(_)
\* the text of a document made of the given lines
Join(lines) ==
    IF lines = <<>> THEN <<>>
    ELSE IF Len(lines) = 1 THEN lines[1]
    ELSE lines[1] \o << NL >> \o Join(Tail(lines))

\* lines of the documents drawn for the parser
ParseLines ==
    { << "X", ":", "1" >>, << "X", ":" >>, << "1" >>,
      << "T", ":", "a" >>, << "T", ":", " " >>, << "T", ":" >>,
      << "R", ":", "j" >>, << "R", ":", " ", "k", " " >>, << "R", ":" >>,
      << "K", ":", "g" >>, << "C", ":", "m" >>, << "S", ":", "s" >> }

\* documents of the corpora of a whole run
DocTwoTunes ==
    Join(<< << "X", ":", "1" >>, << "T", ":", "a" >>, << "R", ":", "j" >>,
            << "X", ":", "2" >>, << "T", ":", "b", "(" >> >>)
DocNoTune  == Join(<< << "a", "b" >>, << "T", ":", "a" >> >>)
RunDocs    == { DocTwoTunes, DocNoTune }

\* names of the entries of abc_books that hold *.abc files
DirNames == { << "1" >>, << "2" >>, << "x" >> }

\* code point order of the characters of directory names
Ord(c) == IF c \in Digits THEN 48 + DigitVal(c) ELSE 120

RECURSIVE StrLeq(_, _)
\* a <= b for Python str
StrLeq(a, b) ==
    IF a = <<>> THEN TRUE
    ELSE IF b = <<>> THEN FALSE
    ELSE IF Head(a) # Head(b) THEN Ord(Head(a)) < Ord(Head(b))
    ELSE StrLeq(Tail(a), Tail(b))

\* name of the i-th *.abc file of a corpus
FileName(i) == IF i = 1 THEN "a.abc" ELSE IF i = 2 THEN "b.abc" ELSE "c.abc"

\* sorted(base_path.iterdir()): the directories are visited in the order of
\* their names (the files of one directory in directory order)
SortedByDir(c) ==
    \A i \in DOMAIN c, j \in DOMAIN c : i < j => StrLeq(c[i].dir, c[j].dir)

\* a row left in tunes.db by a run over an earlier corpus
OldRow ==
    [id |-> 1, title |-> << "o" >>, rhythm_type |-> Unknown, key |-> Unknown,
     composer |-> Unknown, source |-> None, book_number |-> 1,
     file_name |-> "a.abc", content |-> << "T", ":", "o" >>]

\* tunes.db before the first modelled run: absent, or left by an earlier run
InitStores == { [rows |-> {}, seq |-> 0], [rows |-> {OldRow}, seq |-> 1] }

\* the results list has not been drawn yet
NotDrawn == [drawn |-> FALSE, raised |-> FALSE, rows |-> <<>>]

\* tunes_df = None
NoDf == [loaded |-> FALSE, rows |-> <<>>]

\* the footer text: a fixed text followed by the query value it quotes
Status(text, value) == << text, value >>

\* the scroll state of the front end when the module is loaded
InitScroll ==
    /\ scroll_offset = 0
    /\ status_message = Status("ABC Tune Explorer - Select a filter mode", <<>>)
    /\ is_dragging_scrollbar = FALSE
    /\ drag_start_y = 0
    /\ drag_start_scroll = 0

InitWith(c, store) ==
    /\ corpus = c
    /\ runs = 1
    /\ pc = "load"
    /\ crash_at = "none"
    /\ file_idx = 1
    /\ all_tunes = <<>>
    /\ disk_rows = store.rows
    /\ disk_seq = store.seq
    /\ conn = "none"
    /\ txn = FALSE
    /\ conn_rows = {}
    /\ conn_seq = 0
    /\ ins_idx = 1
    /\ tunes_df = NoDf
    /\ prev_df = NoDf
    /\ insert_log = OrderById(store.rows)
    /\ log_committed = Len(OrderById(store.rows))
    /\ query_mode = "all"
    /\ query_value = <<>>
    /\ filtered_df = NotDrawn
    /\ InitScroll

\* a run of the program over some corpus and some tunes.db
Init ==
    \E n \in 0..MaxFiles :
        \E c \in [1..n -> [dir : DirNames, readable : BOOLEAN,
                           content : RunDocs]] :
            \E store \in InitStores :
                /\ SortedByDir(c)
                /\ InitWith([i \in 1..n |->
                                [dir |-> c[i].dir, file_name |-> FileName(i),
                                 readable |-> c[i].readable,
                                 content |-> c[i].content]],
                            store)

(***************************************************************************)
(* load_all_abc_files.                                                     *)
(***************************************************************************)
\* an unhandled exception raised at position at
Raise(at) == pc' = "crashed" /\ crash_at' = at

\* one iteration over the files: a file of a directory whose name is not all
\* digits is never reached, any other file is parsed and its tunes appended;
\* an exception that left parse_file would leave load_all_abc_files too
LoadFile ==
    /\ pc = "load"
    /\ file_idx <= Len(corpus)
    /\ LET file == corpus[file_idx]
           res  == IF isdigit(file.dir)
                   THEN parse_file(file, DigitsToInt(file.dir))
                   ELSE [raised |-> FALSE, tunes |-> <<>>]
       IN  IF res.raised
           THEN /\ Raise("load")
                /\ UNCHANGED << file_idx, all_tunes >>
           ELSE /\ all_tunes' = all_tunes \o res.tunes
                /\ file_idx' = file_idx + 1
                /\ UNCHANGED << pc, crash_at >>
    /\ UNCHANGED << uiVars, corpus, runs, diskVars, connVars, ins_idx,
                    tunes_df, prev_df, insert_log, log_committed >>

\* return all_tunes
LoadReturn ==
    /\ pc = "load"
    /\ file_idx > Len(corpus)
    /\ pc' = "connect"
    /\ UNCHANGED << uiVars, corpus, runs, crash_at, loadVars, diskVars, connVars,
                    ins_idx, tunes_df, prev_df, insert_log, log_committed >>

(***************************************************************************)
(* The main script: TuneDatabase(), the full-table clear, insert_tunes,    *)
(* get_dataframe and close.  Every sqlite3 call can raise on a storage     *)
(* fault; the script handles no exception, so the exception ends the run.  *)
(***************************************************************************)
\* the inserted rows that survive a rollback of the open transaction
Committed(log) == SubSeq(log, 1, log_committed)

\* db = TuneDatabase(): sqlite3.connect and CREATE TABLE IF NOT EXISTS
Connect ==
    /\ pc = "connect"
    /\ conn' = "open"
    /\ txn' = FALSE
    /\ conn_rows' = disk_rows
    /\ conn_seq' = disk_seq
    /\ pc' = "delete"
    /\ UNCHANGED << uiVars, corpus, runs, crash_at, loadVars, diskVars, ins_idx,
                    tunes_df, prev_df, insert_log, log_committed >>

\* TuneDatabase() raises: in sqlite3.connect (nothing was opened) or in the
\* CREATE TABLE that follows it (the connection was opened)
ConnectFault ==
    /\ pc = "connect"
    /\ \E c \in {"none", "open"} : conn' = c
    /\ Raise("connect")
    /\ UNCHANGED << uiVars, corpus, runs, loadVars, diskVars, txn, conn_rows, conn_seq,
                    ins_idx, tunes_df, prev_df, insert_log, log_committed >>

\* the run without the clear: the rows of earlier runs stay in the table
DeleteAll_skipped ==
    /\ pc = "delete"
    /\ pc' = "clear_commit"
    /\ UNCHANGED << uiVars, corpus, runs, crash_at, loadVars, diskVars,
                    connVars, ins_idx, tunes_df, prev_df, insert_log,
                    log_committed >>

\* db.conn.execute("DELETE FROM tunes"): opens a transaction; sqlite_sequence
\* is left alone
DeleteAll ==
    /\ pc = "delete"
    /\ conn_rows' = {}
    /\ txn' = TRUE
    /\ pc' = "clear_commit"
    /\ UNCHANGED << uiVars, corpus, runs, crash_at, loadVars, diskVars, conn, conn_seq,
                    ins_idx, tunes_df, prev_df, insert_log, log_committed >>

\* db.conn.commit() after the DELETE
ClearCommit ==
    /\ pc = "clear_commit"
    /\ disk_rows' = conn_rows
    /\ disk_seq' = conn_seq
    /\ txn' = FALSE
    /\ log_committed' = Len(insert_log)
    /\ pc' = "insert"
    /\ UNCHANGED << uiVars, corpus, runs, crash_at, loadVars, conn, conn_rows,
                    conn_seq, ins_idx, tunes_df, prev_df, insert_log >>

\* cursor.execute(INSERT ...) for tunes[ins_idx]
InsertRow ==
    /\ pc = "insert"
    /\ ins_idx <= Len(all_tunes)
    /\ LET id  == NextId(conn_rows, conn_seq)
           row == RowOf(all_tunes[ins_idx], id)
       IN  /\ conn_rows' = conn_rows \cup {row}
           /\ conn_seq' = id
           /\ insert_log' = Append(insert_log, row)
    /\ txn' = TRUE
    /\ ins_idx' = ins_idx + 1
    /\ UNCHANGED << uiVars, corpus, runs, pc, crash_at, loadVars, diskVars, conn,
                    tunes_df, prev_df, log_committed >>

\* cursor.execute(INSERT ...) raises.  SQLite backs out the failed statement
\* and, depending on the error, either keeps the transaction open with the
\* rows inserted so far or rolls the whole transaction back; insert_tunes
\* has no handler, so the exception leaves it
InsertFault ==
    /\ pc = "insert"
    /\ ins_idx <= Len(all_tunes)
    /\ \/ UNCHANGED << txn, conn_rows, conn_seq, insert_log >>
       \/ /\ txn' = FALSE
          /\ conn_rows' = disk_rows
          /\ conn_seq' = disk_seq
          /\ insert_log' = Committed(insert_log)
    /\ Raise("insert")
    /\ UNCHANGED << uiVars, corpus, runs, loadVars, diskVars, conn, ins_idx, tunes_df,
                    prev_df, log_committed >>

\* self.conn.commit() at the end of insert_tunes
InsertCommit ==
    /\ pc = "insert"
    /\ ins_idx > Len(all_tunes)
    /\ disk_rows' = conn_rows
    /\ disk_seq' = conn_seq
    /\ txn' = FALSE
    /\ log_committed' = Len(insert_log)
    /\ pc' = "fetch"
    /\ UNCHANGED << uiVars, corpus, runs, crash_at, loadVars, conn, conn_rows,
                    conn_seq, ins_idx, tunes_df, prev_df, insert_log >>

\* a commit raises: the transaction stays open or is rolled back
CommitFault ==
    /\ pc \in {"clear_commit", "insert"}
    /\ pc = "insert" => ins_idx > Len(all_tunes)
    /\ \/ UNCHANGED << txn, conn_rows, conn_seq, insert_log >>
       \/ /\ txn' = FALSE
          /\ conn_rows' = disk_rows
          /\ conn_seq' = disk_seq
          /\ insert_log' = Committed(insert_log)
    /\ Raise(IF pc = "insert" THEN "insert_commit" ELSE pc)
    /\ UNCHANGED << uiVars, corpus, runs, loadVars, diskVars, conn, ins_idx, tunes_df,
                    prev_df, log_committed >>

\* the DELETE or the SELECT raises
StatementFault ==
    /\ pc \in {"delete", "fetch"}
    /\ Raise(pc)
    /\ UNCHANGED << uiVars, corpus, runs, loadVars, diskVars, connVars, ins_idx,
                    tunes_df, prev_df, insert_log, log_committed >>

\* tunes_df = db.get_dataframe()
Fetch ==
    /\ pc = "fetch"
    /\ tunes_df' = [loaded |-> TRUE, rows |-> get_dataframe(conn_rows)]
    /\ pc' = "close"
    /\ UNCHANGED << uiVars, corpus, runs, crash_at, loadVars, diskVars, connVars,
                    ins_idx, prev_df, insert_log, log_committed >>

\* db.close(): an open transaction is rolled back
Close ==
    /\ pc = "close"
    /\ conn' = "closed"
    /\ txn' = FALSE
    /\ conn_rows' = {}
    /\ conn_seq' = 0
    /\ insert_log' = Committed(insert_log)
    /\ pc' = "ui"
    /\ UNCHANGED << uiVars, corpus, runs, crash_at, loadVars, diskVars, ins_idx,
                    tunes_df, prev_df, log_committed >>

\* draw_results_list: filtered_df = get_filtered_tunes()
Draw ==
    /\ pc = "ui"
    /\ filtered_df' = get_filtered_tunes(tunes_df.rows, query_mode, query_value)
    /\ UNCHANGED << query_mode, query_value, scrollVars, corpus, runs, pc,
                    crash_at, loadVars, diskVars, connVars, ins_idx, tunes_df,
                    prev_df, insert_log, log_committed >>

\* py5.run_sketch() returns when the window is closed
SketchExit ==
    /\ pc = "ui"
    /\ pc' = "exited"
    /\ UNCHANGED << uiVars, corpus, runs, crash_at, loadVars, diskVars, connVars,
                    ins_idx, tunes_df, prev_df, insert_log, log_committed >>

\* the interpreter exits on the unhandled exception: a connection that was
\* never closed is dropped and its open transaction is rolled back
ProcessExit ==
    /\ pc = "crashed"
    /\ conn' = IF conn = "open" THEN "abandoned" ELSE conn
    /\ txn' = FALSE
    /\ conn_rows' = {}
    /\ conn_seq' = 0
    /\ insert_log' = Committed(insert_log)
    /\ pc' = "exited"
    /\ UNCHANGED << uiVars, corpus, runs, crash_at, loadVars, diskVars, ins_idx,
                    tunes_df, prev_df, log_committed >>

\* the program is started again over the same corpus and the same tunes.db
NewRun ==
    /\ pc = "exited"
    /\ runs < MaxRuns
    /\ runs' = runs + 1
    /\ pc' = "load"
    /\ crash_at' = "none"
    /\ file_idx' = 1
    /\ all_tunes' = <<>>
    /\ conn' = "none"
    /\ ins_idx' = 1
    /\ tunes_df' = NoDf
    /\ filtered_df' = NotDrawn
    /\ prev_df' = IF tunes_df.loaded THEN tunes_df ELSE prev_df
    /\ UNCHANGED << query_mode, query_value, scrollVars, corpus, diskVars, txn,
                    conn_rows, conn_seq, insert_log, log_committed >>

Next ==
    \/ LoadFile
    \/ LoadReturn
    \/ Connect
    \/ ConnectFault
    \/ DeleteAll
    \/ ClearCommit
    \/ InsertRow
    \/ InsertFault
    \/ InsertCommit
    \/ CommitFault
    \/ StatementFault
    \/ Fetch
    \/ Close
    \/ Draw
    \/ SketchExit
    \/ ProcessExit
    \/ NewRun

Spec == Init /\ [][Next]_vars

(***************************************************************************)
(* The parser on its own: load_all_abc_files over one readable file of     *)
(* book 1 whose text is any document of up to MaxLines lines of ParseLines. *)
(***************************************************************************)
InitParse ==
    \E n \in 0..MaxLines :
        \E lines \in [1..n -> ParseLines] :
            InitWith(<< [dir |-> << "1" >>, readable |-> TRUE,
                         content |-> Join(lines), file_name |-> "a.abc"] >>,
                     [rows |-> {}, seq |-> 0])

NextParse ==
    \/ LoadFile
    \/ LoadReturn

SpecParse == InitParse /\ [][NextParse]_vars

(***************************************************************************)
(* The filters on their own: the front end after a completed load, over    *)
(* any DataFrame of QueryFrames, in any filter mode with any query value.  *)
(***************************************************************************)
QueryRow(id, title, rhythm_type, book_number) ==
    [id |-> id, title |-> title, rhythm_type |-> rhythm_type, key |-> Unknown,
     composer |-> Unknown, source |-> None, book_number |-> book_number,
     file_name |-> "a.abc", content |-> << "T", ":" >> \o title]

\* rows of the DataFrames drawn for the filters
QueryRows ==
    << QueryRow(1, << "J", "1" >>, << "j" >>, 1),
       QueryRow(2, << "j", ".", "2" >>, << "J", "2" >>, 12),
       QueryRow(3, << "(", "1" >>, Unknown, 2) >>

\* the DataFrames drawn for the filters: the sub-sequences of QueryRows
QueryFrames ==
    { LET In(r) == r.id \in ids IN SelectSeq(QueryRows, In)
        : ids \in SUBSET {1, 2, 3} }

\* the characters typed into the query
QueryChars == { "1", "2", "_", " ", "j", "J", ".", "(" }

\* the front end after a completed run that loaded the rows; query_value is
\* only ever typed in the modes book, type and title
InitQuery ==
    \E rows \in QueryFrames, mode \in {"all", "book", "type", "title"},
       n \in 0..MaxQuery :
      \E value \in [1..n -> QueryChars] :
        /\ mode = "all" => value = <<>>
        /\ corpus = <<>>
        /\ runs = 1
        /\ pc = "ui"
        /\ crash_at = "none"
        /\ file_idx = 1
        /\ all_tunes = [k \in 1..Len(rows) |->
                           [f \in DOMAIN rows[k] \ {"id"} |-> rows[k][f]]]
        /\ disk_rows = {rows[k] : k \in 1..Len(rows)}
        /\ disk_seq = MaxId({rows[k] : k \in 1..Len(rows)})
        /\ conn = "closed"
        /\ txn = FALSE
        /\ conn_rows = {}
        /\ conn_seq = 0
        /\ ins_idx = Len(rows) + 1
        /\ tunes_df = [loaded |-> TRUE, rows |-> rows]
        /\ prev_df = NoDf
        /\ insert_log = rows
        /\ log_committed = Len(rows)
        /\ query_mode = mode
        /\ query_value = value
        /\ filtered_df = NotDrawn
        /\ InitScroll

NextQuery == Draw

SpecQuery == InitQuery /\ [][NextQuery]_vars

(***************************************************************************)
(* The front end: the dimensions of the window.                            *)
(***************************************************************************)
WINDOW_WIDTH == 900
WINDOW_HEIGHT == 700
HEADER_HEIGHT == 50
FILTER_SECTION_HEIGHT == 120
RESULTS_HEADER_HEIGHT == 40
FOOTER_HEIGHT == 40
ITEM_HEIGHT == 70
SCROLL_SPEED == 20
SCROLLBAR_WIDTH == 12
SCROLLBAR_MARGIN == 5

results_y == HEADER_HEIGHT + FILTER_SECTION_HEIGHT + RESULTS_HEADER_HEIGHT
results_height ==
    WINDOW_HEIGHT - HEADER_HEIGHT - FILTER_SECTION_HEIGHT - FOOTER_HEIGHT
        - RESULTS_HEADER_HEIGHT
scrollbar_x == WINDOW_WIDTH - SCROLLBAR_WIDTH - SCROLLBAR_MARGIN

button_y == HEADER_HEIGHT + 20
button_width == 120
button_height == 40
button_spacing == 15
modes == << "all", "book", "type", "title" >>
mode_labels ==
    [all   |-> "Showing all tunes",
     book  |-> "Filter by book number",
     type  |-> "Filter by tune type",
     title |-> "Search by title"]

Max(a, b) == IF a >= b THEN a ELSE b
Min(a, b) == IF a <= b THEN a ELSE b

(***************************************************************************)
(* The front end: scrolling.  The handlers compute scroll_offset with      *)
(* float quotients by results_height; the model keeps the quotients exact  *)
(* by counting scroll_offset in units of 1/results_height pixel, so Px(p)  *)
(* is p pixels.  Float rounding is not modelled.                           *)
(***************************************************************************)
Px(p) == p * results_height

\* total_content_height = len(filtered_df) * ITEM_HEIGHT, in pixels
total_content_height(df) == Len(df.rows) * ITEM_HEIGHT

\* max_scroll = max(0, total_content_height - results_height), in pixels
max_scroll(total) == Max(0, total - results_height)

\* max(0, min(scroll_offset, max_scroll))
Clamp(offset, total) == Max(0, Min(offset, Px(max_scroll(total))))

\* thumb_height = max(30, results_height * visible_ratio) is 30
ThumbAtMinimum(total) == 30 * total > results_height * results_height

\* thumb_y <= mouse_y <= thumb_y + thumb_height.  With the thumb above its
\* minimum, thumb_height = results_height^2 / total, max_thumb_travel =
\* results_height * max_scroll / total and thumb_y - results_y =
\* offset / total; the comparisons are multiplied by total.  With the thumb
\* at 30, thumb_y - results_y = (results_height - 30) * offset
\* / (results_height * max_scroll).
OverThumb(mouse_y, offset, total) ==
    IF ~ThumbAtMinimum(total)
    THEN /\ offset <= (mouse_y - results_y) * total
         /\ (mouse_y - results_y) * total <= offset + results_height * results_height
    ELSE /\ (results_height - 30) * offset
               <= (mouse_y - results_y) * results_height * max_scroll(total)
         /\ (mouse_y - results_y - 30) * results_height * max_scroll(total)
               <= (results_height - 30) * offset

\* scrollbar_x <= mouse_x <= scrollbar_x + SCROLLBAR_WIDTH
OverScrollbar(mouse_x) ==
    scrollbar_x <= mouse_x /\ mouse_x <= scrollbar_x + SCROLLBAR_WIDTH

\* results_y <= mouse_y <= results_y + results_height
OverTrack(mouse_y) ==
    results_y <= mouse_y /\ mouse_y <= results_y + results_height

\* click_ratio * max_scroll, where click_ratio = (mouse_y - results_y) /
\* results_height
JumpTo(mouse_y, total) == (mouse_y - results_y) * max_scroll(total)

\* scroll_change = (drag_distance / max_thumb_travel) * max_scroll: with the
\* thumb above its minimum this is drag_distance * total / results_height
\* pixels, with the thumb at 30 it is drag_distance * max_scroll /
\* (results_height - 30) pixels, here rounded down to the unit
scroll_change(drag_distance, total) ==
    IF ~ThumbAtMinimum(total)
    THEN drag_distance * total
    ELSE (drag_distance * max_scroll(total) * results_height)
             \div (results_height - 30)

\* the buttons of the filter modes: the index of the button under the mouse
ButtonX(i) == 20 + (i - 1) * (button_width + button_spacing)
OverButton(i, mouse_x, mouse_y) ==
    /\ ButtonX(i) <= mouse_x /\ mouse_x <= ButtonX(i) + button_width
    /\ button_y <= mouse_y /\ mouse_y <= button_y + button_height
ButtonsUnder(mouse_x, mouse_y) ==
    {i \in 1..Len(modes) : OverButton(i, mouse_x, mouse_y)}

(***************************************************************************)
(* The front end: the event handlers.  An exception that leaves draw or a  *)
(* handler stops the sketch.                                               *)
(***************************************************************************)
BACKSPACE == "BACKSPACE"
ENTER == "ENTER"
RETURN == "RETURN"

Running == pc = "ui" /\ ~filtered_df.raised

backEnd == << corpus, runs, pc, crash_at, loadVars, diskVars, connVars, ins_idx,
              tunes_df, prev_df, insert_log, log_committed >>

\* key_pressed, with py5.key = key
key_pressed(key) ==
    /\ Running
    /\ IF query_mode \in {"book", "type", "title"}
       THEN /\ query_value' =
                  IF key = BACKSPACE
                  THEN IF query_value = <<>> THEN <<>>
                       ELSE SubSeq(query_value, 1, Len(query_value) - 1)
                  ELSE IF key \in {ENTER, RETURN} THEN query_value
                  ELSE IF Len(query_value) < MaxTyped
                       THEN Append(query_value, key)
                       ELSE query_value
            /\ status_message' =
                  IF key \in {ENTER, RETURN}
                  THEN Status("Searching for: ", query_value)
                  ELSE status_message
            /\ scroll_offset' = 0
       ELSE UNCHANGED << query_value, status_message, scroll_offset >>
    /\ UNCHANGED << query_mode, filtered_df, is_dragging_scrollbar, drag_start_y,
                    drag_start_scroll, backEnd >>

\* mouse_pressed, with the mouse at (mouse_x, mouse_y)
mouse_pressed(mouse_x, mouse_y) ==
    /\ Running
    /\ LET df    == get_filtered_tunes(tunes_df.rows, query_mode, query_value)
           total == total_content_height(df)
           jump  == Clamp(JumpTo(mouse_y, total), total)
           under == ButtonsUnder(mouse_x, mouse_y)
       IN  /\ filtered_df' = df
           /\ IF df.raised
              THEN UNCHANGED << query_mode, query_value, scrollVars >>
              ELSE IF /\ total > results_height
                      /\ OverScrollbar(mouse_x)
                      /\ OverThumb(mouse_y, scroll_offset, total)
              THEN /\ is_dragging_scrollbar' = TRUE
                   /\ drag_start_y' = mouse_y
                   /\ drag_start_scroll' = scroll_offset
                   /\ UNCHANGED << query_mode, query_value, scroll_offset,
                                   status_message >>
              ELSE IF /\ total > results_height
                      /\ OverScrollbar(mouse_x)
                      /\ OverTrack(mouse_y)
              THEN /\ scroll_offset' = jump
                   /\ is_dragging_scrollbar' = TRUE
                   /\ drag_start_y' = mouse_y
                   /\ drag_start_scroll' = jump
                   /\ UNCHANGED << query_mode, query_value, status_message >>
              ELSE IF under # {}
              THEN LET first == CHOOSE i \in under : \A j \in under : i <= j
                       mode  == modes[first]
                   IN  /\ query_mode' = mode
                       /\ query_value' = <<>>
                       /\ scroll_offset' = 0
                       /\ status_message' = Status(mode_labels[mode], <<>>)
                       /\ UNCHANGED << is_dragging_scrollbar, drag_start_y,
                                       drag_start_scroll >>
              ELSE UNCHANGED << query_mode, query_value, scrollVars >>
    /\ UNCHANGED backEnd

\* mouse_dragged, with the mouse at height mouse_y
mouse_dragged(mouse_y) ==
    /\ Running
    /\ IF ~is_dragging_scrollbar
       THEN UNCHANGED << filtered_df, scroll_offset >>
       ELSE LET df    == get_filtered_tunes(tunes_df.rows, query_mode, query_value)
                total == total_content_height(df)
            IN  /\ filtered_df' = df
                /\ IF df.raised \/ max_scroll(total) = 0
                   THEN UNCHANGED scroll_offset
                   ELSE scroll_offset' =
                            Clamp(drag_start_scroll
                                    + scroll_change(mouse_y - drag_start_y, total),
                                  total)
    /\ UNCHANGED << query_mode, query_value, status_message,
                    is_dragging_scrollbar, drag_start_y, drag_start_scroll,
                    backEnd >>

\* mouse_released
mouse_released ==
    /\ Running
    /\ is_dragging_scrollbar' = FALSE
    /\ UNCHANGED << query_mode, query_value, filtered_df, scroll_offset,
                    status_message, drag_start_y, drag_start_scroll, backEnd >>

\* mouse_wheel, with event.count = count; the clamp left out
mouse_wheel_unclamped(count) ==
    /\ Running
    /\ LET df == get_filtered_tunes(tunes_df.rows, query_mode, query_value)
       IN  /\ filtered_df' = df
           /\ IF df.raised
              THEN UNCHANGED scroll_offset
              ELSE scroll_offset' = scroll_offset - Px(count * SCROLL_SPEED)
    /\ UNCHANGED << query_mode, query_value, status_message,
                    is_dragging_scrollbar, drag_start_y, drag_start_scroll,
                    backEnd >>

\* mouse_wheel, with event.count = count
mouse_wheel(count) ==
    /\ Running
    /\ LET df    == get_filtered_tunes(tunes_df.rows, query_mode, query_value)
           total == total_content_height(df)
       IN  /\ filtered_df' = df
           /\ IF df.raised
              THEN UNCHANGED scroll_offset
              ELSE scroll_offset' =
                       Clamp(scroll_offset - Px(count * SCROLL_SPEED), total)
    /\ UNCHANGED << query_mode, query_value, status_message,
                    is_dragging_scrollbar, drag_start_y, drag_start_scroll,
                    backEnd >>

(***************************************************************************)
(* The front end on its own: the events of a session over a loaded         *)
(* DataFrame of UiFrames.                                                  *)
(***************************************************************************)
\* seven tunes of book 1, two of them with a 1 in the title: more rows than
\* the list shows at once
UiRows ==
    [i \in 1..7 |->
        QueryRow(i, IF i <= 2 THEN << "J", "1" >> ELSE << "j" >>, << "j" >>, 1)]

UiFrames == { <<>>, UiRows }

\* the printable keys typed
UiChars == { "1", "(" }

UiKeys == { BACKSPACE, ENTER, RETURN } \cup UiChars

\* the places clicked: the middle of each filter button, the scrollbar at
\* the top, near the top and at the bottom of its track, and the list
MousePoints ==
    { << ButtonX(i) + 60, button_y + 20 >> : i \in 1..Len(modes) }
        \cup { << scrollbar_x + 6, y >> : y \in {results_y, results_y + 30,
                                                 results_y + results_height} }
        \cup { << 450, 400 >> }

\* the heights the mouse is dragged to
DragYs == { results_y, results_y + 30, results_y + results_height }

\* event.count of one notch of the wheel, away from and towards the user
WheelCounts == { -1, 1 }

InitUi ==
    \E rows \in UiFrames :
        /\ corpus = <<>>
        /\ runs = 1
        /\ pc = "ui"
        /\ crash_at = "none"
        /\ file_idx = 1
        /\ all_tunes = [k \in 1..Len(rows) |->
                           [f \in DOMAIN rows[k] \ {"id"} |-> rows[k][f]]]
        /\ disk_rows = {rows[k] : k \in 1..Len(rows)}
        /\ disk_seq = MaxId({rows[k] : k \in 1..Len(rows)})
        /\ conn = "closed"
        /\ txn = FALSE
        /\ conn_rows = {}
        /\ conn_seq = 0
        /\ ins_idx = Len(rows) + 1
        /\ tunes_df = [loaded |-> TRUE, rows |-> rows]
        /\ prev_df = NoDf
        /\ insert_log = rows
        /\ log_committed = Len(rows)
        /\ query_mode = "all"
        /\ query_value = <<>>
        /\ filtered_df = NotDrawn
        /\ InitScroll

NextUi ==
    \/ Draw
    \/ \E key \in UiKeys : key_pressed(key)
    \/ \E p \in MousePoints : mouse_pressed(p[1], p[2])
    \/ \E y \in DragYs : mouse_dragged(y)
    \/ mouse_released
    \/ \E count \in WheelCounts : mouse_wheel(count)

SpecUi == InitUi /\ [][NextUi]_vars

(***************************************************************************)
(* What the specification says of a document, stated over positions of     *)
(* the text rather than by scanning it.                                    *)
(***************************************************************************)
SetMin(S) == CHOOSE m \in S : \A x \in S : m <= x

\* index i starts a line of s
StartsLine(s, i) == i = 1 \/ s[i - 1] = NL

\* the index that ends the line holding index i (a newline or Len(s) + 1)
EndOfLine(s, i) == SetMin({k \in i..Len(s) + 1 : k = Len(s) + 1 \/ s[k] = NL})

\* the first index at or after i that holds no whitespace
AfterWhitespace(s, i) ==
    SetMin({k \in i..Len(s) + 1 : k = Len(s) + 1 \/ s[k] \notin Whitespace})

\* a boundary starts at i: X: at the start of a line, whitespace, a digit
IsBoundary(s, i) ==
    /\ StartsLine(s, i)
    /\ i + 2 <= Len(s)
    /\ s[i] = "X" /\ s[i + 1] = ":"
    /\ AfterWhitespace(s, i + 2) <= Len(s)
    /\ s[AfterWhitespace(s, i + 2)] \in Digits

Boundaries(s) == {i \in 1..Len(s) : IsBoundary(s, i)}

\* the index just after the digits of the boundary that starts at i
BoundaryEnd(s, i) ==
    SetMin({k \in AfterWhitespace(s, i + 2)..Len(s) + 1 :
               k = Len(s) + 1 \/ s[k] \notin Digits})

\* the tune block of the boundary that starts at i
BlockAt(s, i) ==
    SubSeq(s, BoundaryEnd(s, i),
           SetMin({b \in Boundaries(s) : b > i} \cup {Len(s) + 1}) - 1)

\* the indices of block at which a line with the tag starts
TagLines(tag, block) ==
    {j \in 1..Len(block) - 1 :
        StartsLine(block, j) /\ block[j] = tag /\ block[j + 1] = ":"}

\* the text after the colon of the tag line that starts at j
Remainder(block, j) == SubSeq(block, j + 2, EndOfLine(block, j + 2) - 1)

\* the tag lines with at least one character after the colon
ValueLines(tag, block) ==
    {j \in TagLines(tag, block) : Remainder(block, j) # <<>>}

\* the boundaries whose block has a T: line with a character after the colon
TitledBoundaries(s) ==
    {i \in Boundaries(s) : ValueLines("T", BlockAt(s, i)) # {}}

\* the k-th smallest element of a set of numbers
Kth(S, k) == CHOOSE x \in S : Cardinality({y \in S : y < x}) = k - 1

\* the blocks with such a T: line, in document order
TitledBlocks(s) ==
    [k \in 1..Cardinality(TitledBoundaries(s)) |->
        BlockAt(s, Kth(TitledBoundaries(s), k))]

\* the document parsed by SpecParse and the result of parsing it
TheDoc == corpus[1].content
Parsed == pc = "connect"

(***************************************************************************)
(* C4.  parse yields one record per tune block that has a T: line with at  *)
(* least one character after the colon, in document order, each holding    *)
(* the trimmed text of its block, and no other record: nothing for a       *)
(* document without boundary, for the text before the first boundary or    *)
(* for a block without such a line.                                        *)
(***************************************************************************)
C4_OneRecordPerTitledBlock ==
    Parsed =>
        /\ Len(all_tunes) = Cardinality(TitledBoundaries(TheDoc))
        /\ \A k \in 1..Len(all_tunes) :
               all_tunes[k].content = Strip(TitledBlocks(TheDoc)[k])

\* a document with front matter and two blocks, the first of them dropped
C4_Witness ==
    /\ Parsed
    /\ Cardinality(Boundaries(TheDoc)) = 2
    /\ SetMin(Boundaries(TheDoc)) > 1
    /\ Len(all_tunes) = 1

\* C4 as stated: one record for each block that contains a T: line at all
C4_OneRecordPerTLineBlock ==
    Parsed =>
        Len(all_tunes) =
            Cardinality({i \in Boundaries(TheDoc) :
                            TagLines("T", BlockAt(TheDoc, i)) # {}})

(***************************************************************************)
(* C3.  Every record parse returns has a title that is the trimmed         *)
(* remainder of the first T: line of its block and is not empty.           *)
(***************************************************************************)
C3_TitleOfFirstTLineNeverEmpty ==
    Parsed =>
        \A k \in 1..Len(all_tunes) :
            LET block == TitledBlocks(TheDoc)[k]
            IN  /\ all_tunes[k].title =
                       Strip(Remainder(block, SetMin(TagLines("T", block))))
                /\ all_tunes[k].title # <<>>

(***************************************************************************)
(* C5.  For every record, rhythm_type, key and composer are the trimmed    *)
(* value of the first R:, K:, C: line of the block that has at least one   *)
(* character after the colon, or "Unknown" when the block has no such      *)
(* line; source is the trimmed value of the first such S: line, or None.   *)
(* Later lines with the same tag do not affect the record.                 *)
(***************************************************************************)
ValueOr(tag, block, default) ==
    IF ValueLines(tag, block) = {} THEN default
    ELSE Strip(Remainder(block, SetMin(ValueLines(tag, block))))

C5_FirstValueLineOrDefault ==
    Parsed =>
        \A k \in 1..Len(all_tunes) :
            LET block == TitledBlocks(TheDoc)[k]
                tune  == all_tunes[k]
            IN  /\ tune.rhythm_type = ValueOr("R", block, Unknown)
                /\ tune.key = ValueOr("K", block, Unknown)
                /\ tune.composer = ValueOr("C", block, Unknown)
                /\ tune.source = ValueOr("S", block, None)

\* a block with two different R: lines and no K:, C: or S: line
C5_Witness ==
    /\ Parsed
    /\ Len(all_tunes) = 1
    /\ Cardinality(ValueLines("R", TitledBlocks(TheDoc)[1])) = 2
    /\ all_tunes[1].rhythm_type = << "j" >>
    /\ all_tunes[1].key = Unknown
    /\ all_tunes[1].composer = Unknown
    /\ all_tunes[1].source = None

\* C5 as stated: the first line with the tag, whatever follows the colon
FirstOr(tag, block, default) ==
    IF TagLines(tag, block) = {} THEN default
    ELSE Strip(Remainder(block, SetMin(TagLines(tag, block))))

C5_FirstTagLineOrDefault ==
    Parsed =>
        \A k \in 1..Len(all_tunes) :
            LET block == TitledBlocks(TheDoc)[k]
                tune  == all_tunes[k]
            IN  /\ tune.rhythm_type = FirstOr("R", block, Unknown)
                /\ tune.key = FirstOr("K", block, Unknown)
                /\ tune.composer = FirstOr("C", block, Unknown)
                /\ tune.source = FirstOr("S", block, None)

(***************************************************************************)
(* Helpers for the claims about whole runs.                                *)
(***************************************************************************)
\* a row without its identity: the tune dictionary it was inserted from
TuneOfRow(row) ==
    [title |-> row.title, rhythm_type |-> row.rhythm_type, key |-> row.key,
     composer |-> row.composer, source |-> row.source,
     book_number |-> row.book_number, file_name |-> row.file_name,
     content |-> row.content]

\* the rows of a DataFrame without their identities
Tunes(rows) == [k \in 1..Len(rows) |-> TuneOfRow(rows[k])]

\* the ids of a sequence of rows
Ids(rows) == [k \in 1..Len(rows) |-> rows[k].id]

\* load_all_abc_files has just returned (all_tunes is not assigned again)
Loaded == pc = "connect"

\* the tunes of all_tunes that come from the i-th file of the corpus
TunesFrom(i) ==
    LET FromFile(t) == t.file_name = corpus[i].file_name
    IN  SelectSeq(all_tunes, FromFile)

\* the trimmed titled blocks of a document, in document order
TitledContents(doc) ==
    [k \in 1..Cardinality(TitledBoundaries(doc)) |->
        Strip(TitledBlocks(doc)[k])]

(***************************************************************************)
(* C6.  A file that cannot be read contributes no record and does not      *)
(* abort the load: load_all_abc_files returns, and what it returns is      *)
(* exactly the records of the readable files of the numbered directories,  *)
(* none lost and none added.                                               *)
(***************************************************************************)
C6_UnreadableFilesSkipped ==
    /\ crash_at # "load"
    /\ Loaded =>
        /\ \A i \in 1..Len(corpus) :
               LET got == TunesFrom(i)
               IN  IF corpus[i].readable /\ isdigit(corpus[i].dir)
                   THEN [k \in 1..Len(got) |-> got[k].content]
                            = TitledContents(corpus[i].content)
                   ELSE got = <<>>
        /\ \A k \in 1..Len(all_tunes) :
               \E i \in 1..Len(corpus) :
                   all_tunes[k].file_name = corpus[i].file_name

\* an unreadable file that holds tunes, followed by a readable one
C6_Witness ==
    /\ Loaded
    /\ Len(corpus) = 2
    /\ ~corpus[1].readable /\ isdigit(corpus[1].dir)
    /\ corpus[1].content = DocTwoTunes
    /\ corpus[2].readable /\ isdigit(corpus[2].dir)
    /\ corpus[2].content = DocTwoTunes
    /\ Len(all_tunes) = 2

(***************************************************************************)
(* C7.  Whatever tunes.db held before, the DataFrame a run loads holds     *)
(* exactly the records of that run's corpus, in load order, and so the     *)
(* same records in the same order as the DataFrame of the previous run     *)
(* over the unchanged corpus (identities aside).                           *)
(***************************************************************************)
C7_ReingestionIdempotent ==
    tunes_df.loaded =>
        /\ Tunes(tunes_df.rows) = all_tunes
        /\ prev_df.loaded => Tunes(tunes_df.rows) = Tunes(prev_df.rows)

\* a second completed run over a corpus with tunes
C7_Witness ==
    /\ tunes_df.loaded
    /\ prev_df.loaded
    /\ Len(tunes_df.rows) >= 2
    /\ Ids(tunes_df.rows) # Ids(prev_df.rows)

(***************************************************************************)
(* C10.  The rows inserted so far have strictly increasing identities in   *)
(* the order of their insertion, and get_dataframe returns the current     *)
(* rows in ascending identity, which is the order of their insertion,      *)
(* each with the identity and the field values it was inserted with.       *)
(***************************************************************************)
C10_IdentitiesIncreaseInInsertionOrder ==
    /\ \A i \in 1..Len(insert_log), j \in 1..Len(insert_log) :
           i < j => insert_log[i].id < insert_log[j].id
    /\ conn = "open" =>
           LET Current(r) == r \in conn_rows
           IN  get_dataframe(conn_rows) = SelectSeq(insert_log, Current)

\* rows inserted after a clear of a table that held rows
C10_Witness ==
    /\ conn = "open"
    /\ runs = 2
    /\ Len(insert_log) >= 4
    /\ Cardinality(conn_rows) = 2
    /\ pc = "fetch"

(***************************************************************************)
(* C1.  insert_tunes is atomic: when a storage fault makes it raise, the   *)
(* rows visible through the store are all of the call's records or none.   *)
(***************************************************************************)
C1_InsertAllOrNothing ==
    (pc = "crashed" /\ crash_at \in {"insert", "insert_commit"}) =>
        \/ get_dataframe(conn_rows) = <<>>
        \/ Tunes(get_dataframe(conn_rows)) = all_tunes

(***************************************************************************)
(* C2.  In every run in which the store was opened, close() has been       *)
(* executed by the time the run has ended.                                 *)
(***************************************************************************)
C2_StoreClosedOnEveryExit ==
    (pc = "exited" /\ conn # "none") => conn = "closed"

(***************************************************************************)
(* Helpers for the claims about the filters.                               *)
(***************************************************************************)
\* s is an integer literal of Python: whitespace, an optional sign, digits
\* separated by single underscores, whitespace
IsIntLiteral(s) ==
    \E a \in 1..Len(s), b \in 1..Len(s) :
        /\ a <= b
        /\ \A k \in 1..Len(s) : (k < a \/ k > b) => s[k] \in Whitespace
        /\ LET d == IF s[a] \in {"+", "-"} THEN a + 1 ELSE a
           IN  /\ d <= b
               /\ s[d] \in Digits
               /\ s[b] \in Digits
               /\ \A k \in d..b : s[k] \in Digits \cup {"_"}
               /\ \A k \in d..b - 1 : ~(s[k] = "_" /\ s[k + 1] = "_")

\* s is a plain decimal integer: an optional sign and decimal digits
IsDecimalInteger(s) ==
    LET d == IF s # <<>> /\ s[1] \in {"+", "-"} THEN 2 ELSE 1
    IN  d <= Len(s) /\ \A k \in d..Len(s) : s[k] \in Digits

\* needle occurs in s as a literal substring when letter case is ignored
ContainsIgnoringCase(s, needle) ==
    \E i \in 0..Len(s) - Len(needle) :
        \A k \in 1..Len(needle) : lower(s[i + k]) = lower(needle[k])

\* the rows whose column contains the needle, in the order of the DataFrame
SubstringFilter(rows, column, needle) ==
    LET Keep(r) == ContainsIgnoringCase(r[column], needle)
    IN  SelectSeq(rows, Keep)

(***************************************************************************)
(* C8.  In book mode a non-empty query value that int() does not accept    *)
(* yields no record and raises nothing; the empty query value is no filter *)
(* and yields every record.                                                *)
(***************************************************************************)
C8_InvalidBookQueryYieldsNothing ==
    (filtered_df.drawn /\ query_mode = "book") =>
        /\ ~filtered_df.raised
        /\ (query_value # <<>> /\ ~IsIntLiteral(query_value))
               => filtered_df.rows = <<>>
        /\ query_value = <<>> => filtered_df.rows = tunes_df.rows

\* a query that mixes digits and letters over a DataFrame that holds rows
C8_Witness ==
    /\ filtered_df.drawn
    /\ query_mode = "book"
    /\ query_value = << "1", "j" >>
    /\ Len(tunes_df.rows) = 3
    /\ filtered_df.rows = <<>>

\* C8 as stated: every value that is not a decimal integer, the empty one
\* included, yields no record
C8_NonDecimalBookQueryYieldsNothing ==
    (filtered_df.drawn /\ query_mode = "book"
        /\ ~IsDecimalInteger(query_value)) =>
        /\ ~filtered_df.raised
        /\ filtered_df.rows = <<>>

(***************************************************************************)
(* C9.  In type and title mode the result is exactly the rows whose        *)
(* rhythm_type, respectively title, contains the query value as a literal  *)
(* substring when letter case is ignored, whatever the value is.           *)
(***************************************************************************)
C9_LiteralSubstringIgnoringCase ==
    (filtered_df.drawn /\ query_mode \in {"type", "title"}) =>
        /\ ~filtered_df.raised
        /\ filtered_df.rows =
               SubstringFilter(tunes_df.rows,
                               IF query_mode = "type" THEN "rhythm_type"
                               ELSE "title",
                               query_value)

(***************************************************************************)
(* Helpers for the claim about duplicates across files.                    *)
(***************************************************************************)
RECURSIVE NumberOf(_)
\* the number a string of decimal digits denotes, read from its first digit
NumberOf(name) ==
    IF Len(name) = 1 THEN DigitVal(name[1])
    ELSE LET Pow10[n \in 0..Len(name)] == IF n = 0 THEN 1 ELSE 10 * Pow10[n - 1]
         IN  DigitVal(name[1]) * Pow10[Len(name) - 1] + NumberOf(Tail(name))

\* a file of the corpus that load_all_abc_files parses
IsParsed(file) == file.readable /\ isdigit(file.dir)

RECURSIVE RecordCount(_)
\* the number of records in the first n files of the corpus
RecordCount(n) ==
    IF n = 0 THEN 0
    ELSE RecordCount(n - 1)
           + (IF IsParsed(corpus[n])
              THEN Cardinality(TitledBoundaries(corpus[n].content)) ELSE 0)

\* the file of the corpus a row comes from
FileOf(row) == CHOOSE f \in {corpus[i] : i \in 1..Len(corpus)} :
                   f.file_name = row.file_name

\* the fields parse extracts from the text of the block
Metadata(row) ==
    << row.title, row.rhythm_type, row.key, row.composer, row.source, row.content >>

\* the non-empty pieces of a title: the searches that the title matches
Needles(title) ==
    {SubSeq(title, a, b) : a \in 1..Len(title), b \in 1..Len(title)} \ {<<>>}

\* the stored rows are the records of the parsed files, one row per record,
\* each with the number of its own directory, copies with distinct identities
StoredRowsKeepDuplicates ==
    LET rows == tunes_df.rows
    IN  /\ Len(rows) = RecordCount(Len(corpus))
        /\ \A k \in 1..Len(rows) :
               /\ IsParsed(FileOf(rows[k]))
               /\ rows[k].book_number = NumberOf(FileOf(rows[k]).dir)
        /\ \A j \in 1..Len(rows), k \in 1..Len(rows) :
               (j # k /\ rows[j].content = rows[k].content)
                   => /\ Metadata(rows[j]) = Metadata(rows[k])
                      /\ rows[j].id # rows[k].id

\* a title search with any piece of a stored title returns every row that
\* has this title
TitleSearchReturnsEveryCopy ==
    LET rows == tunes_df.rows
    IN  \A k \in 1..Len(rows) :
            \A needle \in Needles(rows[k].title) :
                LET found == search_tunes(rows, needle)
                IN  /\ ~found.raised
                    /\ \A j \in 1..Len(rows) :
                           rows[j].title = rows[k].title
                               => \E i \in 1..Len(found.rows) :
                                      found.rows[i] = rows[j]

(***************************************************************************)
(* C11.  Duplicates across files are preserved: after a completed run the  *)
(* stored rows are exactly the records parsed over all files, each with    *)
(* the number of its own directory, the copies of one tune block in two    *)
(* files have identical metadata and distinct identities, and a title      *)
(* search that matches a tune returns every copy of it.                    *)
(***************************************************************************)
C11_DuplicatesPreservedAndFound ==
    tunes_df.loaded =>
        /\ StoredRowsKeepDuplicates
        /\ TitleSearchReturnsEveryCopy

\* the part of C11 about the stored rows alone
StoredRowsKeepDuplicatesAfterRun == tunes_df.loaded => StoredRowsKeepDuplicates

\* the same two tunes stored from a file of book 1 and a file of book 2
TwoBooksSameTunes ==
    /\ tunes_df.loaded
    /\ Len(corpus) = 2
    /\ corpus[1].dir = << "1" >> /\ corpus[2].dir = << "2" >>
    /\ corpus[1].content = DocTwoTunes /\ corpus[2].content = DocTwoTunes
    /\ Len(tunes_df.rows) = 4

(***************************************************************************)
(* C12.  Whatever events the front end has handled over a loaded           *)
(* collection, scroll_offset is at least 0 and at most max(0, number of    *)
(* records of the current filter result * ITEM_HEIGHT - height of the      *)
(* visible list); an event that changes the filter mode or the query value *)
(* leaves scroll_offset at 0, and an event that moves scroll_offset leaves *)
(* it in the range of the filter result current after the event.           *)
(***************************************************************************)
\* the records the current mode and query value select
CurrentFilter == get_filtered_tunes(tunes_df.rows, query_mode, query_value)

\* the largest scroll position of the current filter result, in the unit of
\* scroll_offset
ScrollRange ==
    LET content == Len(CurrentFilter.rows) * ITEM_HEIGHT
    IN  results_height * (IF content > results_height
                          THEN content - results_height ELSE 0)

ScrollInRange == 0 <= scroll_offset /\ scroll_offset <= ScrollRange

FilterChangeResets ==
    (query_mode' # query_mode \/ query_value' # query_value)
        => scroll_offset' = 0

ScrollMoveClamps ==
    scroll_offset' # scroll_offset
        => (0 <= scroll_offset' /\ scroll_offset' <= ScrollRange')

C12_ScrollOffsetStaysInRange ==
    /\ [](pc = "ui" => ScrollInRange)
    /\ [][FilterChangeResets /\ ScrollMoveClamps]_vars

\* a query has been typed and searched for, and the scrollbar is being
\* dragged to a position strictly inside the range of the filter result
C12_Witness ==
    /\ pc = "ui"
    /\ query_mode = "book"
    /\ query_value = << "1" >>
    /\ status_message = Status("Searching for: ", << "1" >>)
    /\ is_dragging_scrollbar
    /\ scroll_offset # drag_start_scroll
    /\ 0 < scroll_offset
    /\ scroll_offset < ScrollRange

====
